---------------------------- MODULE Spec2Model ----------------------------
(***************************************************************************)
(* A model of praw's live-thread object model (praw/models/reddit/live.py): *)
(* LiveThread, LiveThreadContribution, LiveUpdate and the listing of a     *)
(* thread's updates, over a transport that answers get and post.           *)
(*                                                                         *)
(* A Python object is its __dict__: a function from attribute names to     *)
(* values.  None is the string "None" for string-valued attributes and 0   *)
(* for the handle attributes (_contrib, _contributor), whose other values  *)
(* 1, 2, ... name the instances in the order they were created.            *)
(***************************************************************************)
EXTENDS Integers, Sequences, FiniteSets, TLC

VARIABLES
    thread,     \* __dict__ of the caller's LiveThread; EmptyDict before construction
    server,     \* the settings the server holds for the thread
    made,       \* helper instances created for the thread: [contrib, contributor]
    last,       \* the last call: [op, arg, result, value, handle]
    net,        \* the transport calls of the last call, in order
    changes,    \* server-side edits made by other clients so far
    calls,      \* calls made on the contribution helper so far
    before,     \* the thread's __dict__ as the last call found it
    pend,       \* the update() call that waits for its post to be answered
    closed,     \* the server holds the thread as closed
    pages,      \* the pages the server holds of the thread's update listing
    gen,        \* the generator updates() returned
    out,        \* the updates it has yielded, in order
    upd,        \* __dict__ of the caller's LiveUpdate; EmptyDict before there is one
    umade,      \* LiveUpdateContribution instances created for that LiveUpdate
    lhs, rhs,   \* the two objects of a comparison
    seed,       \* the interpreter's string-hash seed
    cmp,        \* the comparison's results: [done, eq, hashl, hashr]
    botData,    \* the bot's `data`: author -> [texts, strikes]
    bot         \* the bot's loop: [state, author, body, before, sent] of the last comment

threadVars == <<thread, server, made, changes, calls, before, pend, closed>>
listingVars == <<pages, gen, out, upd, umade>>
eqVars == <<lhs, rhs, seed, cmp>>
botVars == <<botData, bot>>
vars == <<threadVars, last, net, listingVars, eqVars, botVars>>

---------------------------------------------------------------------------
(* Bounds *)

\* Instances of one helper kind created for one thread.
MaxMade == 2
\* Server-side edits by other clients.
MaxChanges == 1
\* Calls on the contribution helper (update, add, close).
MaxCalls == 1
\* Pages of a listing, and updates on one page.
MaxPages == 2
MaxPageLen == 2

---------------------------------------------------------------------------
(* Values *)

None == "None"
Ids == {"a", "b"}
Vals == {"v1", "v2"}
\* The four settings update() names, in the order of its dictionary literal.
SettingOrder == <<"title", "description", "nsfw", "resources">>
Settings == {SettingOrder[i] : i \in 1..Len(SettingOrder)}
\* Keyword names a caller passes through **other_settings.
ExtraNames == {"foo", "id"}
\* Attributes a caller reads.
ReadNames == Settings \cup {"id", "foo"}

EmptyDict == [k \in {} |-> None]

\* dict.update(e) on d
DictUpdate(d, e) ==
    [k \in DOMAIN d \cup DOMAIN e |-> IF k \in DOMAIN e THEN e[k] ELSE d[k]]

\* set(seq), and the orders in which the elements of a set may come.
SetOf(seq) == {seq[i] : i \in 1..Len(seq)}
Orders(S) == {o \in [1..Cardinality(S) -> S] : SetOf(o) = S}

\* del d[k] for every k of ks that d holds
DictDel(d, ks) == [k \in DOMAIN d \ ks |-> d[k]]

\* One transport call as the log keeps it: a get with the payload it was
\* answered with (EmptyDict when the transport raised), a post with its data.
Get(path, answer) == [verb |-> "get", path |-> path, data |-> answer]
Post(path, data) == [verb |-> "post", path |-> path, data |-> data]

\* API_PATH['liveabout'].format(id=self.id)
info_path_fixed(d) == <<"liveabout", "a">>
info_path_listing(d) == <<"live_updates", d["id"]>>
info_path(d) == <<"liveabout", d["id"]>>

\* What the server's about-document for thread i decodes to.
ServerPayload(i) == DictUpdate(server, [id |-> i])


---------------------------------------------------------------------------
(* LiveThread and its base class *)

\* bool(x) of an id or a name: None and the empty string are false.
Truthy(x) == x \notin {None, ""}

\* LiveThread.__init__(reddit, id, _data).  _data is the decoded payload, a
\* dict; EmptyDict stands for None and for {} (both false to bool()).  The
\* base class stores every payload field and _fetched = False.
LiveThread_init(id, data) ==
    IF Truthy(id) = (data # EmptyDict)
    THEN [result |-> "TypeError", d |-> EmptyDict]
    ELSE LET base == DictUpdate(data, "_fetched" :> FALSE)
             withId == IF Truthy(id) THEN DictUpdate(base, "id" :> id) ELSE base
         IN [result |-> "ok",
             d |-> DictUpdate(withId, ("_contrib" :> 0) @@ ("_contributor" :> 0))]

\* RedditBase._fetch once the transport has answered: the fields of the
\* payload overwrite this thread's, what the payload does not name stays as
\* it is (the helpers held in _contrib and _contributor included), and the
\* thread is fetched.
fetch_replace(d, payload) ==
    [DictUpdate(d, LiveThread_init(None, payload).d) EXCEPT !["_fetched"] = TRUE]
fetch(d, payload) ==
    [DictUpdate(d, payload) EXCEPT !["_fetched"] = TRUE]

\* RedditBase._reset_attributes(*names)
reset_attributes(d, names) == [DictDel(d, names) EXCEPT !["_fetched"] = FALSE]

\* getattr(thread, name) for a public name: the value held, else
\* RedditBase.__getattr__: an error once fetched, otherwise one fetch and a
\* second lookup.  Building the info path reads self.id, which re-enters
\* __getattr__ without end when id itself is not held.  ok: the transport
\* answers (otherwise it raises).
getattr(d, name, ok) ==
    IF name \in DOMAIN d
    THEN [d |-> d, result |-> "ok", value |-> d[name], net |-> <<>>]
    ELSE IF d["_fetched"]
    THEN [d |-> d, result |-> "AttributeError", value |-> None, net |-> <<>>]
    ELSE IF "id" \notin DOMAIN d
    THEN [d |-> d, result |-> "RecursionError", value |-> None, net |-> <<>>]
    ELSE IF ~ok
    THEN [d |-> d, result |-> "TransportError", value |-> None,
          net |-> <<Get(info_path(d), EmptyDict)>>]
    ELSE LET payload == ServerPayload(d["id"])
             d2 == fetch(d, payload)
         IN IF name \in DOMAIN d2
            THEN [d |-> d2, result |-> "ok", value |-> d2[name],
                  net |-> <<Get(info_path(d), payload)>>]
            ELSE [d |-> d2, result |-> "AttributeError", value |-> None,
                  net |-> <<Get(info_path(d), payload)>>]

\* LiveThread.contrib: the LiveThreadContribution held in _contrib, or a new
\* instance (number n + 1) stored there.
contrib(d, n) ==
    IF d["_contrib"] = 0
    THEN [d |-> [d EXCEPT !["_contrib"] = n + 1], handle |-> n + 1, n |-> n + 1]
    ELSE [d |-> d, handle |-> d["_contrib"], n |-> n]

\* LiveThread.contributor: likewise for _contributor.
contributor(d, n) ==
    IF d["_contributor"] = 0
    THEN [d |-> [d EXCEPT !["_contributor"] = n + 1], handle |-> n + 1, n |-> n + 1]
    ELSE [d |-> d, handle |-> d["_contributor"], n |-> n]

---------------------------------------------------------------------------
(* LiveThreadContribution.update *)

\* The keys of `settings` in the order the dictionary holds them: the four
\* named ones, then the extra keywords in the order **other_settings holds
\* them (extras: the order the caller wrote them in).
KeyOrder(settings, extras) ==
    SelectSeq(SettingOrder \o extras, LAMBDA k : k \in DOMAIN settings)

\* One key of the comprehension that builds `data`: the caller's value, or
\* getattr(thread, key) on the fresh thread.
DataStep_swallow(st, settings, k, ok) ==
    IF settings[k] # None
    THEN [st EXCEPT !.data = DictUpdate(@, k :> settings[k])]
    ELSE LET g == getattr(st.fresh, k, ok)
         IN [fresh |-> g.d,
             data |-> DictUpdate(st.data, k :> g.value),
             net |-> st.net \o g.net,
             result |-> "ok"]
DataStep(st, settings, k, ok) ==
    IF st.result # "ok" THEN st
    ELSE IF settings[k] # None
    THEN [st EXCEPT !.data = DictUpdate(@, k :> settings[k])]
    ELSE LET g == getattr(st.fresh, k, ok)
         IN [fresh |-> g.d,
             data |-> IF g.result = "ok" THEN DictUpdate(st.data, k :> g.value)
                      ELSE st.data,
             net |-> st.net \o g.net,
             result |-> g.result]

RECURSIVE DataFrom(_, _, _, _)
DataFrom(st, settings, keys, ok) ==
    IF keys = <<>> THEN st
    ELSE DataFrom(DataStep(st, settings, Head(keys), ok), settings, Tail(keys), ok)

\* The thread update() reads the current settings from: a new LiveThread by
\* id, not the caller's (d).
FreshThread_cached(d, id) == d
FreshThread(d, id) == LiveThread_init(id, EmptyDict).d

\* The attribute names update() resets after its post.
ResetNames_none(settings, data) == {}
ResetNames_submitted(settings, data) == {k \in DOMAIN settings : settings[k] # None}
ResetNames(settings, data) == DOMAIN data

\* Whether update() returns before any work.
NothingToUpdate_empty(settings) == DOMAIN settings = {}
NothingToUpdate(settings) == \A k \in DOMAIN settings : settings[k] = None

\* update(**settings) on the helper of the thread whose __dict__ is d, up to
\* its post: the early return, self.thread.id, the fresh thread and the data
\* read from it.  extras: the order of the extra keywords; okGet: the
\* transport answers the fetch.  The result is "return" (nothing to update),
\* "ok" (data is ready to post) or the error raised.
update_data(d, settings, extras, okGet) ==
    LET quiet == [result |-> "return", data |-> EmptyDict, net |-> <<>>, id |-> None]
        self_id == getattr(d, "id", okGet)
    IN IF NothingToUpdate(settings) THEN quiet
       ELSE IF self_id.result # "ok" THEN [quiet EXCEPT !.result = self_id.result]
       ELSE LET fresh == FreshThread(d, self_id.value)
                st == DataFrom([fresh |-> fresh, data |-> EmptyDict, net |-> <<>>,
                                result |-> "ok"],
                               settings, KeyOrder(settings, extras), okGet)
            IN [result |-> st.result, data |-> st.data, net |-> st.net,
                id |-> self_id.value]

\* The rest of update(): the post of data and, once it is answered, the
\* reset of the caller's thread.  okPost: the transport answers the post.
\* The result is the thread's __dict__ afterwards, the outcome, the post and
\* the server's settings afterwards (a post is applied to the settings the
\* server holds).
update_post(d, settings, data, id, okPost) ==
    LET post == Post(<<"live_update_thread", id>>, data)
    IN IF ~okPost
       THEN [d |-> d, result |-> "TransportError", post |-> post, server |-> server]
       ELSE [d |-> reset_attributes(d, ResetNames(settings, data)),
             result |-> "ok",
             post |-> post,
             server |-> [k \in DOMAIN server |->
                           IF k \in DOMAIN data THEN data[k] ELSE server[k]]]

\* LiveThreadContribution.add(body) on the helper of the thread whose
\* __dict__ is d: the thread afterwards, the outcome and the post.
add(d, body) ==
    LET self_id == getattr(d, "id", TRUE)
    IN [d |-> self_id.d, result |-> self_id.result,
        net |-> IF self_id.result # "ok" THEN <<>>
                ELSE <<Post(<<"live_add_update", self_id.value>>, [body |-> body])>>]

\* LiveThreadContribution.close(): the same, its post carries no data.
close(d) ==
    LET self_id == getattr(d, "id", TRUE)
    IN [d |-> self_id.d, result |-> self_id.result,
        net |-> IF self_id.result # "ok" THEN <<>>
                ELSE <<Post(<<"live_close", self_id.value>>, EmptyDict)>>]

\* The orders a caller may write the extra keywords of `settings` in.
ExtraOrders(settings) == Orders(DOMAIN settings \ Settings)

\* What a caller passes to update(): a value for some of the four settings
\* (None for the rest) and up to two extra keywords.
UpdateArgs ==
    { DictUpdate([k \in Settings |-> IF k \in S THEN "v2" ELSE None], extra) :
        S \in {{}, {"title"}, {"description", "nsfw"}, Settings},
        extra \in {EmptyDict, "foo" :> None, "id" :> None,
                   ("id" :> "b") @@ ("foo" :> "v2")} }

---------------------------------------------------------------------------
(* LiveContributorRelationship: permissions *)

\* Permission names a caller passes, and the longest list passed.
PermNames == {"manage", "settings", "edit"}
MaxPermLen == 2

\* The permissions argument: None, or a list of names.
NoPermissions == [given |-> FALSE, names |-> <<>>]
PermList(names) == [given |-> TRUE, names |-> names]
PermArgs ==
    {NoPermissions}
      \cup {PermList(names) : names \in UNION {[1..n -> PermNames] : n \in 0..MaxPermLen}}

\* The set _handle_permissions iterates.
PermSet(permissions) ==
    IF ~permissions.given THEN {"all"} ELSE SetOf(permissions.names)

\* sep.join(tokens)
RECURSIVE Join(_, _)
Join(tokens, sep) ==
    IF tokens = <<>> THEN ""
    ELSE IF Len(tokens) = 1 THEN tokens[1]
    ELSE tokens[1] \o sep \o Join(Tail(tokens), sep)

\* LiveContributorRelationship._handle_permissions(permissions); order is
\* the order in which the set is iterated.
handle_permissions_list(permissions, order) ==
    LET names == IF ~permissions.given THEN <<"all">> ELSE permissions.names
    IN Join([i \in 1..Len(names) |-> "+" \o names[i]], ",")
handle_permissions(permissions, order) ==
    Join([i \in 1..Len(order) |-> "+" \o order[i]], ",")

\* The body invite() and update() post for a redditor.
PermData(type, redditor, permissions, order) ==
    [name |-> redditor, type |-> type,
     permissions |-> handle_permissions(permissions, order)]

---------------------------------------------------------------------------
(* LiveThread: equality and hash *)

\* A Python value of a comparison: an instance with its __dict__, or a str
\* (cls "str", whose d holds the text under "id").
Obj(cls, d) == [cls |-> cls, d |-> d]
PyStr(text) == Obj("str", [id |-> text])

\* RedditBase.__str__: the STR_FIELD attribute, 'id', of an instance; the
\* text of a str.
str(o) == o.d["id"]

\* str.lower() on the texts compared.
Lower(text) == IF text = "A" THEN "a" ELSE text

\* hash(text) of the built-in str under the interpreter's seed: a bijection
\* on 0..15 of the text's code.
Code(text) ==
    CASE text = "a" -> 1 [] text = "A" -> 2 [] text = "b" -> 3
      [] text = "LiveThread" -> 4 [] text = "LiveUpdate" -> 5 [] OTHER -> 6
StrHash(text) == (Code(text) * (2 * seed + 3) + seed) % 16

\* a ^ b on naturals
RECURSIVE Xor(_, _)
Xor(a, b) ==
    IF a = 0 THEN b
    ELSE IF b = 0 THEN a
    ELSE ((a + b) % 2) + 2 * Xor(a \div 2, b \div 2)

\* LiveThread.__eq__(self, other)
LiveThread_eq_nocase(self, other) ==
    IF other.cls = "str" THEN Lower(str(other)) = Lower(str(self))
    ELSE other.cls = self.cls /\ Lower(str(self)) = Lower(str(other))
LiveThread_eq(self, other) ==
    IF other.cls = "str" THEN str(other) = str(self)
    ELSE other.cls = self.cls /\ str(self) = str(other)

\* LiveThread.__hash__(self)
LiveThread_hash(self) == Xor(StrHash(self.cls), StrHash(str(self)))

\* hash(o) of either value of a comparison
PyHash(o) == IF o.cls = "str" THEN StrHash(str(o)) ELSE LiveThread_hash(o)

---------------------------------------------------------------------------
(* LiveUpdate *)

\* The value of an author attribute: the str a caller or a payload gives,
\* and the Redditor that Redditor(reddit, name=value) builds from a str.
AuthorStr(text) == [cls |-> "str", name |-> text]
Redditor(value) == [cls |-> "Redditor", name |-> value.name]

\* LiveUpdate.__setattr__(attribute, value)
LiveUpdate_setattr_raw(d, attribute, value) == DictUpdate(d, attribute :> value)
LiveUpdate_setattr(d, attribute, value) ==
    DictUpdate(d, attribute :> IF attribute = "author" THEN Redditor(value)
                               ELSE value)

\* PRAWBase.__init__: setattr(self, attribute, value) for every payload field.
RECURSIVE SetAll(_, _, _)
SetAll(d, data, names) ==
    IF names = {} THEN d
    ELSE LET k == CHOOSE n \in names : TRUE
         IN SetAll(LiveUpdate_setattr(d, k, data[k]), data, names \ {k})

\* LiveUpdate.__init__(reddit, thread_id, update_id, _data); hasData: _data
\* is not None.
LiveUpdate_init_unfetched(thread_id, update_id, hasData, data) ==
    IF hasData
    THEN [result |-> "ok",
          d |-> DictUpdate(SetAll(EmptyDict, data, DOMAIN data), "_fetched" :> TRUE)]
    ELSE IF Truthy(thread_id) /\ Truthy(update_id)
    THEN [result |-> "ok",
          d |-> ("_thread" :> LiveThread_init(thread_id, EmptyDict).d)
                @@ ("id" :> update_id) @@ ("_fetched" :> FALSE) @@ ("_contrib" :> 0)]
    ELSE [result |-> "TypeError", d |-> EmptyDict]
LiveUpdate_init(thread_id, update_id, hasData, data) ==
    IF hasData
    THEN [result |-> "ok",
          d |-> DictUpdate(SetAll(EmptyDict, data, DOMAIN data), "_fetched" :> TRUE)]
    ELSE IF Truthy(thread_id) /\ Truthy(update_id)
    THEN [result |-> "ok",
          d |-> ("_thread" :> LiveThread_init(thread_id, EmptyDict).d)
                @@ ("id" :> update_id) @@ ("_fetched" :> TRUE) @@ ("_contrib" :> 0)]
    ELSE [result |-> "TypeError", d |-> EmptyDict]

\* LiveThread.__getitem__(update_id) on the thread whose __dict__ is d
getitem(d, update_id) == LiveUpdate_init(d["id"], update_id, FALSE, EmptyDict)

\* LiveUpdate.contrib: self._contrib is looked up first, and a name with a
\* leading underscore that the update does not hold raises AttributeError;
\* otherwise the LiveUpdateContribution held, or a new instance (number
\* n + 1) stored there.
LiveUpdate_contrib(d, n) ==
    IF "_contrib" \notin DOMAIN d
    THEN [d |-> d, result |-> "AttributeError", handle |-> 0, n |-> n]
    ELSE IF d["_contrib"] = 0
    THEN [d |-> [d EXCEPT !["_contrib"] = n + 1], result |-> "ok",
          handle |-> n + 1, n |-> n + 1]
    ELSE [d |-> d, result |-> "ok", handle |-> d["_contrib"], n |-> n]

\* LiveUpdate.thread: self._thread
LiveUpdate_thread(d) ==
    IF "_thread" \notin DOMAIN d
    THEN [result |-> "AttributeError", thread |-> EmptyDict]
    ELSE [result |-> "ok", thread |-> d["_thread"]]

\* RedditBase.fullname of an update: its kind and its id.
fullname(d) == "LiveUpdate_" \o d["id"]

\* LiveUpdateContribution.remove() (op "remove") and strike() (op "strike")
\* on the helper bound to the update whose __dict__ is d: the outcome and
\* the transport calls.
moderate(d, op) ==
    LET t == LiveUpdate_thread(d)
        path == IF op = "remove" THEN "live_remove_update" ELSE "live_strike"
    IN IF t.result # "ok" THEN [result |-> t.result, net |-> <<>>]
       ELSE LET thread_id == getattr(t.thread, "id", TRUE)
            IN IF thread_id.result # "ok"
               THEN [result |-> thread_id.result, net |-> thread_id.net]
               ELSE [result |-> "ok",
                     net |-> <<Post(<<path, thread_id.value>>,
                                    [id |-> fullname(d)])>>]

---------------------------------------------------------------------------
(* LiveThread.updates and the listing generator it iterates *)

ItemIds == {"u1", "u2"}
\* The payload of one update of the listing.
ItemPayload(i) ==
    ("id" :> i) @@ ("body" :> "text")
    @@ ("author" :> AuthorStr(IF i = "u1" THEN "spez" ELSE "kn0thing"))

\* limit=None
NoLimit == -1

\* ListingGenerator(reddit, url, limit): nothing fetched yet; page names the
\* request the `after` parameter stands for (1: no `after`).
ListingGenerator(limit) ==
    [limit |-> limit, listing |-> <<>>, list_index |-> 0, exhausted |-> FALSE,
     yielded |-> 0, page |-> 1]

\* ListingGenerator._next_batch: one request unless exhausted; the server
\* answers with the page asked for and says whether another follows.
next_batch(g) ==
    IF g.exhausted THEN [g |-> g, stop |-> TRUE, requests |-> 0]
    ELSE LET listing == IF g.page <= Len(pages) THEN pages[g.page] ELSE <<>>
             after == g.page < Len(pages)
             g1 == [g EXCEPT !.listing = listing, !.list_index = 0]
         IN IF listing = <<>> THEN [g |-> g1, stop |-> TRUE, requests |-> 1]
            ELSE [g |-> IF after THEN [g1 EXCEPT !.page = g.page + 1]
                        ELSE [g1 EXCEPT !.exhausted = TRUE],
                  stop |-> FALSE, requests |-> 1]

\* ListingGenerator.__next__: the next decoded update, or StopIteration.
listing_next(g) ==
    IF g.limit # NoLimit /\ g.yielded >= g.limit
    THEN [g |-> g, stop |-> TRUE, requests |-> 0, item |-> EmptyDict]
    ELSE LET b == IF g.list_index >= Len(g.listing) THEN next_batch(g)
                  ELSE [g |-> g, stop |-> FALSE, requests |-> 0]
         IN IF b.stop
            THEN [g |-> b.g, stop |-> TRUE, requests |-> b.requests,
                  item |-> EmptyDict]
            ELSE [g |-> [b.g EXCEPT !.list_index = @ + 1, !.yielded = @ + 1],
                  stop |-> FALSE, requests |-> b.requests,
                  item |-> LiveUpdate_init(None, None, TRUE,
                              ItemPayload(b.g.listing[b.g.list_index + 1])).d]

\* The body of LiveThread.updates between two yields: the next update of the
\* listing with _thread set to the thread (self) that was asked.
updates_stamp_none(self, item) == item
updates_stamp(self, item) == LiveUpdate_setattr(item, "_thread", self)

---------------------------------------------------------------------------
(* The caller's thread: state machine *)

Constructed == thread # EmptyDict

\* Every call records the thread it found.
Called == before' = thread

NoCall == [op |-> "none", arg |-> EmptyDict, result |-> "ok", value |-> None,
           handle |-> 0]

NoGen == [state |-> "none", self |-> EmptyDict, lg |-> ListingGenerator(NoLimit),
          requests |-> 0]
NoCmp == [done |-> FALSE, eq |-> FALSE, hashl |-> 0, hashr |-> 0]

\* No update() waits for its post.
NoPend == [active |-> FALSE, settings |-> EmptyDict, data |-> EmptyDict, id |-> None]
Idle == ~pend.active

\* Nothing called yet.
NoCalls ==
    /\ made = [contrib |-> 0, contributor |-> 0]
    /\ last = NoCall
    /\ net = <<>>
    /\ changes = 0
    /\ calls = 0
    /\ before = EmptyDict
    /\ pend = NoPend
    /\ closed = FALSE

\* No thread yet.
ThreadInit == thread = EmptyDict /\ NoCalls

\* No listing in use and no LiveUpdate.
ListingIdle ==
    pages = <<>> /\ gen = NoGen /\ out = <<>> /\ upd = EmptyDict /\ umade = 0

\* No comparison.
EqIdle == lhs = PyStr("a") /\ rhs = PyStr("a") /\ seed = 0 /\ cmp = NoCmp

\* The bot is not running.
NoBot == [state |-> "off", author |-> None, body |-> <<>>, before |-> EmptyDict,
          sent |-> <<>>]
BotIdle == botData = EmptyDict /\ bot = NoBot

Init ==
    /\ ThreadInit
    /\ server \in { DictUpdate([k \in Settings |-> "v1"], foo) :
                      foo \in {EmptyDict, "foo" :> "v1"} }
    /\ ListingIdle
    /\ EqIdle
    /\ BotIdle

\* thread = LiveThread(reddit, id, _data): by id, from the payload a listing
\* or a fetch decoded, with both or with neither.
Construct(id, full) ==
    LET r == LiveThread_init(id, IF full THEN ServerPayload("a") ELSE EmptyDict)
    IN /\ Idle
       /\ Called
       /\ thread' = r.d
       /\ made' = [contrib |-> 0, contributor |-> 0]
       /\ last' = [NoCall EXCEPT !.op = "construct",
                     !.arg = [id |-> id, data |-> IF full THEN "payload" ELSE None],
                     !.result = r.result]
       /\ net' = <<>>
       /\ UNCHANGED <<server, changes, calls, pend, closed, listingVars, eqVars, botVars>>

\* thread.<name>
Read(name, ok) ==
    /\ Constructed
    /\ Idle
    /\ Called
    /\ LET g == getattr(thread, name, ok)
       IN /\ thread' = g.d
          /\ last' = [NoCall EXCEPT !.op = "read", !.arg = [name |-> name],
                        !.result = g.result, !.value = g.value]
          /\ net' = g.net
    /\ UNCHANGED <<server, made, changes, calls, pend, closed, listingVars, eqVars, botVars>>

\* thread.contrib
ReadContrib ==
    /\ Constructed
    /\ Idle
    /\ made.contrib < MaxMade
    /\ Called
    /\ LET h == contrib(thread, made.contrib)
       IN /\ thread' = h.d
          /\ made' = [made EXCEPT !.contrib = h.n]
          /\ last' = [NoCall EXCEPT !.op = "contrib", !.handle = h.handle]
    /\ net' = <<>>
    /\ UNCHANGED <<server, changes, calls, pend, closed, listingVars, eqVars, botVars>>

\* thread.contributor
ReadContributor ==
    /\ Constructed
    /\ Idle
    /\ made.contributor < MaxMade
    /\ Called
    /\ LET h == contributor(thread, made.contributor)
       IN /\ thread' = h.d
          /\ made' = [made EXCEPT !.contributor = h.n]
          /\ last' = [NoCall EXCEPT !.op = "contributor", !.handle = h.handle]
    /\ net' = <<>>
    /\ UNCHANGED <<server, changes, calls, pend, closed, listingVars, eqVars, botVars>>

\* thread.contrib.update(**settings), from the call to its return, its error
\* or its post being sent: the post is a second blocking call, and the
\* server may change before it is answered.
Update(settings, extras, okGet) ==
    /\ Constructed
    /\ Idle
    /\ calls < MaxCalls
    /\ Called
    /\ LET h == contrib(thread, made.contrib)
           u == update_data(h.d, settings, extras, okGet)
       IN /\ thread' = h.d
          /\ made' = [made EXCEPT !.contrib = h.n]
          /\ net' = u.net
          /\ IF u.result = "ok"
             THEN /\ pend' = [active |-> TRUE, settings |-> settings,
                              data |-> u.data, id |-> u.id]
                  /\ last' = [NoCall EXCEPT !.op = "update_sent", !.arg = settings,
                                !.handle = h.handle]
             ELSE /\ pend' = NoPend
                  /\ last' = [NoCall EXCEPT !.op = "update", !.arg = settings,
                                !.result = IF u.result = "return" THEN "ok"
                                           ELSE u.result,
                                !.handle = h.handle]
    /\ calls' = calls + 1
    /\ UNCHANGED <<server, changes, closed, listingVars, eqVars, botVars>>

\* The post of the waiting update() is answered (or fails), and update()
\* ends.
UpdatePost(okPost) ==
    /\ pend.active
    /\ LET u == update_post(thread, pend.settings, pend.data, pend.id, okPost)
       IN /\ thread' = u.d
          /\ server' = u.server
          /\ last' = [last EXCEPT !.op = "update", !.result = u.result]
          /\ net' = Append(net, u.post)
    /\ pend' = NoPend
    /\ UNCHANGED <<made, changes, calls, before, closed, listingVars, eqVars, botVars>>

\* The listing after the server took a new update: the newest comes first.
Prepend(ps, i) ==
    IF ps # <<>> /\ Len(ps[1]) < MaxPageLen
    THEN [ps EXCEPT ![1] = <<i>> \o @]
    ELSE <<<<i>>>> \o ps

\* thread.contrib.add(body): the server gives the new update the id i.
Add(body, i) ==
    /\ Constructed
    /\ Idle
    /\ calls < MaxCalls
    /\ Len(Prepend(pages, i)) <= MaxPages
    /\ Called
    /\ LET h == contrib(thread, made.contrib)
           r == add(h.d, body)
       IN /\ thread' = r.d
          /\ made' = [made EXCEPT !.contrib = h.n]
          /\ last' = [NoCall EXCEPT !.op = "add", !.arg = [body |-> body],
                        !.result = r.result, !.handle = h.handle]
          /\ net' = r.net
          /\ pages' = IF r.result = "ok" THEN Prepend(pages, i) ELSE pages
    /\ calls' = calls + 1
    /\ UNCHANGED <<server, changes, pend, closed, gen, out, upd, umade, eqVars, botVars>>

\* thread.contrib.close()
Close ==
    /\ Constructed
    /\ Idle
    /\ calls < MaxCalls
    /\ Called
    /\ LET h == contrib(thread, made.contrib)
           r == close(h.d)
       IN /\ thread' = r.d
          /\ made' = [made EXCEPT !.contrib = h.n]
          /\ last' = [NoCall EXCEPT !.op = "close", !.result = r.result,
                        !.handle = h.handle]
          /\ net' = r.net
          /\ closed' = (closed \/ r.result = "ok")
    /\ calls' = calls + 1
    /\ UNCHANGED <<server, changes, pend, listingVars, eqVars, botVars>>

\* Another client edits a setting, or the server starts to serve setting foo.
ServerChange(k, v) ==
    /\ changes < MaxChanges
    /\ server' = DictUpdate(server, k :> v)
    /\ server' # server
    /\ changes' = changes + 1
    /\ UNCHANGED <<thread, made, last, net, calls, before, pend, closed, listingVars, eqVars, botVars>>

\* thread.contributor.invite(redditor, permissions) and
\* thread.contributor.update(redditor, permissions): op is "invite" or
\* "update_perms".
Relate(op, redditor, permissions) ==
    /\ Constructed
    /\ Idle
    /\ Called
    /\ LET h == contributor(thread, made.contributor)
           self_id == getattr(h.d, "id", TRUE)
           path == IF op = "invite" THEN "live_invite" ELSE "live_update_perms"
           type == IF op = "invite" THEN "liveupdate_contributor_invite"
                   ELSE "liveupdate_contributor"
       IN /\ thread' = self_id.d
          /\ made' = [made EXCEPT !.contributor = h.n]
          /\ \E order \in Orders(PermSet(permissions)) :
               /\ last' = [NoCall EXCEPT !.op = op,
                             !.arg = [redditor |-> redditor, permissions |-> permissions],
                             !.result = self_id.result, !.handle = h.handle]
               /\ net' = IF self_id.result = "ok"
                         THEN <<Post(<<path, self_id.value>>,
                                     PermData(type, redditor, permissions, order))>>
                         ELSE <<>>
    /\ UNCHANGED <<server, changes, calls, pend, closed, listingVars, eqVars, botVars>>

\* The thread under its contribution helper: its cache is loaded by reads,
\* edited on the server by other clients (also between the get and the post
\* of one update()), and written by update(); add() and close() post.
Next ==
    \/ \E id \in Ids \cup {None}, full \in BOOLEAN : Construct(id, full)
    \/ \E name \in {"title", "foo"} : Read(name, TRUE)
    \/ \E s \in UpdateArgs : \E extras \in ExtraOrders(s), okGet \in BOOLEAN :
         Update(s, extras, okGet)
    \/ \E okPost \in BOOLEAN : UpdatePost(okPost)
    \/ \E i \in ItemIds : Add("text", i)
    \/ Close
    \/ \E k \in {"title", "description"}, v \in Vals : ServerChange(k, v)

Spec == Init /\ [][Next]_vars

\* The thread under attribute and helper reads.
NextLazy ==
    \/ \E id \in Ids \cup {None}, full \in BOOLEAN : Construct(id, full)
    \/ \E name \in ReadNames, ok \in BOOLEAN : Read(name, ok)
    \/ ReadContrib
    \/ ReadContributor
    \/ \E k \in Settings \cup {"foo"}, v \in Vals : ServerChange(k, v)

SpecLazy == Init /\ [][NextLazy]_vars

\* update() with the four named settings only.
HelperArgs == {s \in UpdateArgs : DOMAIN s = Settings}

\* The thread's helpers under reads, fetches, resets and helper calls.
NextHelper ==
    \/ \E id \in Ids \cup {None}, full \in BOOLEAN : Construct(id, full)
    \/ \E ok \in BOOLEAN : Read("title", ok)
    \/ ReadContrib
    \/ ReadContributor
    \/ \E s \in HelperArgs : \E extras \in ExtraOrders(s), okGet \in BOOLEAN :
         Update(s, extras, okGet)
    \/ \E okPost \in BOOLEAN : UpdatePost(okPost)
    \/ Close

SpecHelper == Init /\ [][NextHelper]_vars


\* The thread's contributor relationship.
NextPerm ==
    \/ \E id \in Ids \cup {None}, full \in BOOLEAN : Construct(id, full)
    \/ \E op \in {"invite", "update_perms"}, p \in PermArgs :
         Relate(op, "spez", p)

SpecPerm == Init /\ [][NextPerm]_vars

---------------------------------------------------------------------------
(* The thread's updates: state machine *)

\* The listings a server may hold: up to MaxPages pages of 1..MaxPageLen
\* updates each (none at all for a thread without updates).
PageSet == UNION { [1..n -> ItemIds] : n \in 1..MaxPageLen }
Listings == UNION { [1..k -> PageSet] : k \in 0..MaxPages }

\* A thread built by id or decoded from a payload, and any listing.
InitListing ==
    /\ NoCalls
    /\ server = [k \in Settings |-> "v1"]
    /\ thread \in {LiveThread_init(i, EmptyDict).d : i \in Ids}
                  \cup {LiveThread_init(None, ServerPayload("a")).d}
    /\ pages \in Listings
    /\ gen = NoGen /\ out = <<>> /\ upd = EmptyDict /\ umade = 0
    /\ EqIdle
    /\ BotIdle

\* No thread yet, and a listing of one page.
InitItem ==
    /\ ThreadInit
    /\ server = [k \in Settings |-> "v1"]
    /\ pages = << <<"u1", "u2">> >>
    /\ gen = NoGen /\ out = <<>> /\ upd = EmptyDict /\ umade = 0
    /\ EqIdle
    /\ BotIdle

\* gen = thread.updates(limit=limit): a generator that has not run yet.
CallUpdates_eager(limit) ==
    /\ Constructed
    /\ gen' = [state |-> "new", self |-> thread,
               lg |-> next_batch(ListingGenerator(limit)).g, requests |-> 1]
    /\ out' = <<>>
    /\ last' = [NoCall EXCEPT !.op = "updates"]
    /\ net' = <<Get(<<"live_updates", thread["id"]>>, EmptyDict)>>
    /\ UNCHANGED <<threadVars, pages, upd, umade, eqVars, botVars>>
CallUpdates(limit) ==
    /\ Constructed
    /\ gen' = [state |-> "new", self |-> thread, lg |-> ListingGenerator(limit),
               requests |-> 0]
    /\ out' = <<>>
    /\ last' = [NoCall EXCEPT !.op = "updates"]
    /\ net' = <<>>
    /\ UNCHANGED <<threadVars, pages, upd, umade, eqVars, botVars>>

\* next(gen): run the generator to its next yield or to its end.
Pull ==
    /\ gen.state \in {"new", "running"}
    /\ LET r == listing_next(gen.lg)
           item == updates_stamp(gen.self, r.item)
       IN /\ gen' = [gen EXCEPT !.state = IF r.stop THEN "done" ELSE "running",
                                !.lg = r.g, !.requests = @ + r.requests]
          /\ out' = IF r.stop THEN out ELSE Append(out, item)
          /\ upd' = IF r.stop THEN upd ELSE item
          /\ umade' = IF r.stop THEN umade ELSE 0
          /\ last' = [NoCall EXCEPT !.op = "pull",
                        !.result = IF r.stop THEN "StopIteration" ELSE "ok"]
          /\ net' = IF r.requests = 1
                    THEN <<Get(<<"live_updates", gen.self["id"]>>, EmptyDict)>>
                    ELSE <<>>
    /\ UNCHANGED <<threadVars, pages, eqVars, botVars>>

\* upd = thread[update_id]
GetItem(update_id) ==
    /\ Constructed
    /\ LET r == getitem(thread, update_id)
       IN /\ upd' = r.d
          /\ umade' = 0
          /\ last' = [NoCall EXCEPT !.op = "getitem",
                        !.arg = [update_id |-> update_id], !.result = r.result]
    /\ net' = <<>>
    /\ UNCHANGED <<threadVars, pages, gen, out, eqVars, botVars>>

\* upd = LiveUpdate(reddit, thread_id, update_id, _data)
ConstructUpdate(thread_id, update_id, hasData) ==
    /\ LET r == LiveUpdate_init(thread_id, update_id, hasData,
                                IF hasData THEN ItemPayload("u2") ELSE EmptyDict)
       IN /\ upd' = r.d
          /\ umade' = 0
          /\ last' = [NoCall EXCEPT !.op = "construct_update",
                        !.arg = [thread_id |-> thread_id, update_id |-> update_id,
                                 data |-> IF hasData THEN "payload" ELSE None],
                        !.result = r.result]
    /\ net' = <<>>
    /\ UNCHANGED <<threadVars, pages, gen, out, eqVars, botVars>>

\* upd.<name> = value (text is the value as the caller wrote it)
SetAttr(name, text) ==
    /\ upd # EmptyDict
    /\ upd' = LiveUpdate_setattr(upd, name,
                                 IF name = "author" THEN AuthorStr(text) ELSE text)
    /\ last' = [NoCall EXCEPT !.op = "setattr", !.arg = [name |-> name, value |-> text]]
    /\ net' = <<>>
    /\ UNCHANGED <<threadVars, pages, gen, out, umade, eqVars, botVars>>

\* upd.<name>
ReadItem(name) ==
    /\ upd # EmptyDict
    /\ LET g == getattr(upd, name, TRUE)
       IN /\ upd' = g.d
          /\ last' = [NoCall EXCEPT !.op = "read_item", !.arg = [name |-> name],
                        !.result = g.result, !.value = g.value]
          /\ net' = g.net
    /\ UNCHANGED <<threadVars, pages, gen, out, umade, eqVars, botVars>>

\* upd.contrib
ReadUpdContrib ==
    /\ upd # EmptyDict
    /\ LET h == LiveUpdate_contrib(upd, umade)
       IN /\ upd' = h.d
          /\ umade' = h.n
          /\ last' = [NoCall EXCEPT !.op = "update_contrib", !.result = h.result,
                        !.handle = h.handle]
    /\ net' = <<>>
    /\ UNCHANGED <<threadVars, pages, gen, out, eqVars, botVars>>

\* upd.contrib.remove() and upd.contrib.strike()
Moderate(op) ==
    /\ upd # EmptyDict
    /\ LET h == LiveUpdate_contrib(upd, umade)
           m == moderate(h.d, op)
       IN /\ upd' = h.d
          /\ umade' = h.n
          /\ last' = [NoCall EXCEPT !.op = op, !.handle = h.handle,
                        !.result = IF h.result # "ok" THEN h.result ELSE m.result]
          /\ net' = IF h.result # "ok" THEN <<>> ELSE m.net
    /\ UNCHANGED <<threadVars, pages, gen, out, eqVars, botVars>>

\* A thread's listing being consumed.
NextListing ==
    \/ \E limit \in {NoLimit, 1, 3} : CallUpdates(limit)
    \/ Pull

SpecListing == InitListing /\ [][NextListing]_vars

\* LiveUpdate objects from item access, from the constructor and from a
\* listing, read and assigned to.
NextItem ==
    \/ \E id \in Ids \cup {None}, full \in BOOLEAN : Construct(id, full)
    \/ CallUpdates(NoLimit)
    \/ Pull
    \/ \E i \in ItemIds : GetItem(i)
    \/ \E t \in {None, "a"}, u \in {None, "u1"}, hasData \in BOOLEAN :
         ConstructUpdate(t, u, hasData)
    \/ \E text \in {"spez", "kn0thing"} : SetAttr("author", text)
    \/ SetAttr("body", "edit")
    \/ \E name \in {"id", "body", "stricken"} : ReadItem(name)

SpecItem == InitItem /\ [][NextItem]_vars

\* LiveUpdate objects from item access and from a listing, and their
\* contribution helper.
NextContrib ==
    \/ CallUpdates(NoLimit)
    \/ Pull
    \/ \E i \in ItemIds : GetItem(i)
    \/ ReadUpdContrib
    \/ \E op \in {"remove", "strike"} : Moderate(op)

SpecContrib == InitListing /\ [][NextContrib]_vars

---------------------------------------------------------------------------
(* Comparisons: state machine *)

EqIds == {"a", "A", "b"}
StubThread(i) == Obj("LiveThread", LiveThread_init(i, EmptyDict).d)
FullThread(i) ==
    Obj("LiveThread",
        LiveThread_init(None, DictUpdate([k \in Settings |-> "v1"], [id |-> i])).d)
ItemUpdate(i) == Obj("LiveUpdate", LiveUpdate_init("a", i, FALSE, EmptyDict).d)
ThreadObjs == {StubThread(i) : i \in EqIds} \cup {FullThread(i) : i \in EqIds}
EqObjs == ThreadObjs \cup {ItemUpdate(i) : i \in EqIds} \cup {PyStr(i) : i \in EqIds}

InitEq ==
    /\ ThreadInit
    /\ server = [k \in Settings |-> "v1"]
    /\ ListingIdle
    /\ lhs \in ThreadObjs
    /\ rhs \in EqObjs
    /\ seed \in {0, 1}
    /\ cmp = NoCmp
    /\ BotIdle

\* lhs == rhs, hash(lhs), hash(rhs)
Compare ==
    /\ ~cmp.done
    /\ cmp' = [done |-> TRUE, eq |-> LiveThread_eq(lhs, rhs),
               hashl |-> PyHash(lhs), hashr |-> PyHash(rhs)]
    /\ UNCHANGED <<threadVars, last, net, listingVars, lhs, rhs, seed, botVars>>

NextEq == Compare

SpecEq == InitEq /\ [][NextEq]_vars

---------------------------------------------------------------------------
(* redditBot1.py: the comment loop *)

\* A text is the sequence of its characters.
\* CHECK: the phrases looked for; the loop uses only their number.  (The
\* first phrase is a long encoded text, given here by its first characters.)
CHECK == << <<"e", "J", "w", "B">>, <<"d", "f", "g", "h", "j", "k", "l">> >>

\* The strike count at which an author is reported.
MaxStrikes == 3

\* Authors of comments and the bodies they write.
Authors == {"bob", "eve", "kim"}
Bodies ==
    { <<"d", "f", "g", "h", "j", "k", "l">>,
      <<"d", "f", "g", "h", "j", "k", "l", "!">>,
      <<"h", "i">> }

\* What data.json may hold: for some authors, by name, the texts recorded
\* and as many strikes.
OldTexts == << <<"d", "f", "g", "h", "j", "k", "l">>, <<"y", "o">>, <<"e", "J", "w", "B">> >>
LoadedEntries ==
    {[texts |-> SubSeq(OldTexts, 1, n), strikes |-> n] : n \in 0..MaxStrikes}
LoadedData ==
    UNION {[K -> LoadedEntries] : K \in SUBSET {AuthorStr(a) : a \in {"bob", "eve"}}}

\* needle in text, for a str text
IsSubstr(needle, text) ==
    \E i \in 0..(Len(text) - Len(needle)) : SubSeq(text, i + 1, i + Len(needle)) = needle

\* A list as the left operand of `in`.
PyList(items) == [cls |-> "list", items |-> items]

\* left in text, for a str text: TypeError unless left is a str.
StrContains(left, text) ==
    IF left.cls # "str" THEN "TypeError"
    ELSE IF IsSubstr(left.items, text) THEN "True" ELSE "False"

\* item in lst, for a list
InList(item, lst) == \E i \in 1..Len(lst) : lst[i] = item

\* A reply sent to a comment.
Reply(author, kind, left) == [to |-> author.name, kind |-> kind, left |-> left]

\* One pass of the loop over range(len(CHECK)), with z as it stands:
\* CHECKs = [z], then the test and the strike.
LoopStep(st, z, author, text) ==
    IF st.result # "ok" THEN st
    ELSE LET CHECKs == PyList(<<z>>)
             found == StrContains(CHECKs, text)
             entry == st.data[author]
         IN IF found = "TypeError" THEN [st EXCEPT !.result = "TypeError"]
            ELSE IF found = "True" /\ ~InList(text, entry.texts)
                    /\ entry.strikes # MaxStrikes
            THEN [data |-> [st.data EXCEPT ![author] =
                              [texts |-> Append(entry.texts, text),
                               strikes |-> entry.strikes + 1]],
                  sent |-> Append(st.sent,
                                  Reply(author, "strikes_left",
                                        MaxStrikes - (entry.strikes + 1))),
                  result |-> "ok"]
            ELSE st

RECURSIVE Loop(_, _, _, _, _)
Loop(st, z, n, author, text) ==
    IF z = n THEN st
    ELSE Loop(LoopStep(st, z, author, text), z + 1, n, author, text)

\* The body of `for comment in comments` for one comment: the author's
\* entry is created when the table has no such key, the phrases are looked
\* for, and an author at MaxStrikes is told so.
process(table, author, text) ==
    LET d1 == IF author \notin DOMAIN table
              THEN table @@ (author :> [texts |-> <<>>, strikes |-> 0])
              ELSE table
        st == Loop([data |-> d1, sent |-> <<>>, result |-> "ok"], 0, Len(CHECK),
                   author, text)
    IN IF st.result # "ok" THEN st
       ELSE IF st.data[author].strikes = MaxStrikes
       THEN [st EXCEPT !.sent = Append(@, Reply(author, "reported", 0))]
       ELSE st

\* data.json is loaded and the stream is open.
InitBot ==
    /\ ThreadInit
    /\ server = [k \in Settings |-> "v1"]
    /\ ListingIdle
    /\ EqIdle
    /\ botData \in LoadedData
    /\ bot = [NoBot EXCEPT !.state = "running"]

\* The stream delivers a comment; comment.author is a Redditor.  An
\* exception ends the loop.
Comment(name, body) ==
    /\ bot.state = "running"
    /\ LET r == process(botData, Redditor(AuthorStr(name)), body)
       IN /\ botData' = r.data
          /\ bot' = [state |-> IF r.result = "ok" THEN "running" ELSE r.result,
                     author |-> name, body |-> body, before |-> botData,
                     sent |-> r.sent]
    /\ UNCHANGED <<threadVars, last, net, listingVars, eqVars>>

NextBot == \E name \in Authors, body \in Bodies : Comment(name, body)

SpecBot == InitBot /\ [][NextBot]_vars

---------------------------------------------------------------------------
(* Claims about the thread *)

\* A thread as LiveThread(reddit, id) leaves it: only the id is held.
IsStub(d) == DOMAIN d = {"id", "_fetched", "_contrib", "_contributor"} /\ ~d["_fetched"]

\* C1: constructing a thread and reading its id issue no transport call; a
\* read of another attribute on a stub issues exactly one get, to the info
\* path of the stub's id; once that fetch has filled the thread, a read
\* issues no call.
C1_StubFetchesOnce ==
    /\ last.op = "construct" => net = <<>>
    /\ last.op = "read" /\ last.arg.name = "id" => net = <<>>
    /\ last.op = "read" /\ last.arg.name # "id" /\ IsStub(before)
         => /\ Len(net) = 1
            /\ net[1].verb = "get"
            /\ net[1].path = <<"liveabout", before["id"]>>
    /\ last.op = "read" /\ before["_fetched"] => net = <<>>

\* A stub built with id "b" was filled by one read and now serves another
\* attribute from its __dict__.
C1_Witness ==
    /\ last.op = "read" /\ last.arg.name = "description" /\ last.result = "ok"
    /\ before["id"] = "b" /\ before["_fetched"] /\ "title" \in DOMAIN before
    /\ net = <<>>

\* C6: every access to contrib, direct or by a call on the helper, returns
\* the instance the first access created (number 1), and likewise for
\* contributor; no more than one instance of either is ever created for one
\* thread, and no read, fetch, reset or helper call takes a helper the
\* thread holds away from it.
C6_SameHelperAlways ==
    /\ last.op \in {"contrib", "update", "update_sent", "add", "close"}
         => last.handle = 1
    /\ last.op = "contributor" => last.handle = 1
    /\ made.contrib <= 1 /\ made.contributor <= 1
    /\ last.op \notin {"none", "construct"}
         => \A h \in {"_contrib", "_contributor"} :
              before[h] # 0 => thread[h] = before[h]

\* Both helpers of a stub were created, and a read then fetched the thread:
\* it still holds both.
C6_Witness ==
    /\ last.op = "read" /\ last.result = "ok"
    /\ Len(net) = 1 /\ net[1].verb = "get"
    /\ IsStub(before)
    /\ before["_contrib"] = 1 /\ before["_contributor"] = 1
    /\ thread["_fetched"] /\ "title" \in DOMAIN thread
    /\ thread["_contrib"] = 1 /\ thread["_contributor"] = 1

\* Some settings are given and some are left None.
Mixed(settings) ==
    /\ \E k \in DOMAIN settings : settings[k] # None
    /\ \E k \in DOMAIN settings : settings[k] = None

\* Some setting that the fresh thread does not hold yet (any but id) is left
\* None.
NeedsRead(settings) == \E k \in DOMAIN settings \ {"id"} : settings[k] = None

AllNone(settings) == \A k \in DOMAIN settings : settings[k] = None

\* An update() that posted.
Posted == last.op = "update" /\ last.result = "ok" /\ ~AllNone(last.arg)

\* C3 (as claimed): after an update() that posted, a cached setting the
\* caller left None is still cached.
C3_OnlySubmittedReset ==
    Posted => \A k \in Settings :
                 last.arg[k] = None /\ k \in DOMAIN before
                   => k \in DOMAIN thread /\ thread[k] = before[k]

\* C3 (amended): after an update() that posted, the thread holds none of the
\* names passed to update() (the four settings and every extra keyword,
\* given or None), it is marked unfetched, and it holds every other
\* attribute as before.
C3_AllPostedNamesReset ==
    Posted => /\ DOMAIN thread = DOMAIN before \ DOMAIN last.arg
              /\ ~thread["_fetched"]
              /\ \A k \in DOMAIN thread \ {"_fetched", "_contrib"} :
                   thread[k] = before[k]

\* update(title=..) on a thread with a cached description: the description
\* is gone too.
C3_Witness ==
    /\ Posted
    /\ last.arg["title"] # None /\ last.arg["description"] = None
    /\ "description" \in DOMAIN before
    /\ "description" \notin DOMAIN thread

\* C7: update() with every setting None, extras included, makes no transport
\* call, returns, and leaves the thread's attributes and _fetched as found.
C7_AllNoneIsNoOp ==
    last.op = "update" /\ AllNone(last.arg)
      => /\ net = <<>>
         /\ last.result = "ok"
         /\ DictDel(thread, {"_contrib"}) = DictDel(before, {"_contrib"})

\* update(foo=None) on a thread with a loaded cache.
C7_Witness ==
    /\ last.op = "update" /\ AllNone(last.arg)
    /\ "foo" \in DOMAIN last.arg
    /\ "title" \in DOMAIN thread

---------------------------------------------------------------------------
(* Claims about listings, comparisons and updates *)

RECURSIVE Flatten(_)
Flatten(ps) == IF ps = <<>> THEN <<>> ELSE Head(ps) \o Flatten(Tail(ps))

\* C4: every update a listing has yielded carries the thread that was asked
\* as _thread; and once a listing with limit=None over k >= 1 pages is
\* used up, the updates yielded are the pages' items in page order, one for
\* one, and k page requests were made.
C4_ListingInServerOrder ==
    /\ \A i \in 1..Len(out) :
         "_thread" \in DOMAIN out[i] /\ out[i]["_thread"] = gen.self
    /\ gen.state = "done" /\ gen.lg.limit = NoLimit /\ Len(pages) >= 1
         => /\ Len(out) = Len(Flatten(pages))
            /\ \A i \in 1..Len(out) : out[i]["id"] = Flatten(pages)[i]
            /\ gen.requests = Len(pages)

\* Two pages of two updates each, the first page's updates again on the
\* second: four updates yielded from two requests.
C4_Witness ==
    /\ gen.state = "done" /\ gen.lg.limit = NoLimit
    /\ Len(pages) = 2 /\ pages[1] = pages[2] /\ Len(pages[1]) = 2
    /\ Len(out) = 4 /\ gen.requests = 2
    /\ out[4]["_thread"]["id"] = "b"

\* C5: a thread equals a thread exactly when the ids are the same text, and
\* then their hashes are equal, stub or full; it equals a str exactly when
\* the str is its id; it equals no LiveUpdate.  "a" and "A" are different.
C5_EqualityById ==
    cmp.done =>
      /\ rhs.cls = "LiveThread"
           => /\ cmp.eq <=> lhs.d["id"] = rhs.d["id"]
              /\ lhs.d["id"] = rhs.d["id"] => cmp.hashl = cmp.hashr
      /\ rhs.cls = "str" => (cmp.eq <=> rhs.d["id"] = lhs.d["id"])
      /\ rhs.cls = "LiveUpdate" => ~cmp.eq

\* A stub and a full thread of id "A" compared: equal, with equal hashes.
C5_Witness ==
    /\ cmp.done /\ lhs = StubThread("A") /\ rhs = FullThread("A")
    /\ cmp.eq /\ cmp.hashl = cmp.hashr

\* C8: an author held by a LiveUpdate is a Redditor, never a str: named as
\* the payload named it for an update decoded from a payload, and named as
\* the str assigned after an assignment.
C8_AuthorIsRedditor ==
    /\ "author" \in DOMAIN upd => upd["author"].cls = "Redditor"
    /\ \A i \in 1..Len(out) :
         out[i]["author"] = [cls |-> "Redditor",
                             name |-> ItemPayload(out[i]["id"])["author"].name]
    /\ last.op = "construct_update" /\ last.result = "ok" /\ last.arg.data # None
         => upd["author"] = [cls |-> "Redditor",
                             name |-> ItemPayload("u2")["author"].name]
    /\ last.op = "setattr" /\ last.arg.name = "author"
         => upd["author"] = [cls |-> "Redditor", name |-> last.arg.value]

\* An update decoded from the payload of u2 (author kn0thing) whose author
\* was then assigned "spez".
C8_Witness ==
    /\ last.op = "setattr" /\ last.arg.name = "author" /\ last.arg.value = "spez"
    /\ upd["id"] = "u2" /\ "_thread" \notin DOMAIN upd
    /\ upd["author"].name = "spez"

\* C9 (as claimed): a constructor raises TypeError, with no transport call,
\* exactly when it is given both an identifier and a payload or neither:
\* LiveThread by id and _data, LiveUpdate by (thread_id, update_id) and
\* _data.
C9_ExactlyOneOfIdAndPayload ==
    /\ last.op = "construct"
         => /\ net = <<>>
            /\ last.result = "TypeError"
                 <=> ((last.arg.id # None) = (last.arg.data # None))
    /\ last.op = "construct_update"
         => /\ net = <<>>
            /\ last.result = "TypeError"
                 <=> ((last.arg.thread_id # None /\ last.arg.update_id # None)
                        = (last.arg.data # None))

\* C10: thread[update_id] makes no transport call and returns an update
\* with that id whose _thread is a stub thread of the thread's id; reading
\* an attribute such an update does not hold raises AttributeError without
\* a transport call; an update from a listing serves id and body.
C10_ItemAccessNeverFetches ==
    /\ last.op = "getitem"
         => /\ last.result = "ok" /\ net = <<>>
            /\ upd["id"] = last.arg.update_id
            /\ IsStub(upd["_thread"])
            /\ upd["_thread"]["id"] = thread["id"]
    /\ last.op = "read_item" /\ last.arg.name \notin DOMAIN upd
         => last.result = "AttributeError" /\ net = <<>>
    /\ last.op = "read_item" /\ "_thread" \in DOMAIN upd /\ "_contrib" \notin DOMAIN upd
         /\ last.arg.name \in {"id", "body"}
         => last.result = "ok" /\ net = <<>> /\ last.value = upd[last.arg.name]

\* thread["u1"] on a thread of id "b", then a read of body.
C10_Witness ==
    /\ last.op = "read_item" /\ last.arg.name = "body"
    /\ last.result = "AttributeError" /\ net = <<>>
    /\ "_contrib" \in DOMAIN upd /\ upd["id"] = "u1" /\ upd["_thread"]["id"] = "b"

---------------------------------------------------------------------------
(* Claims about permissions *)

\* The comma-joined texts of one +name token per name of S, in any order.
Encodings(S) ==
    {Join([i \in 1..Len(o) |-> "+" \o o[i]], ",") : o \in Orders(S)}

\* C11: invite() and update() of the contributor relationship make one post
\* whose permissions field is "+all" when permissions is None, "" when it is
\* an empty list, and otherwise the comma-joined +name tokens, in some
\* order, of the distinct names given.
C11_PermissionsEncoding ==
    last.op \in {"invite", "update_perms"} /\ last.result = "ok"
      => /\ Len(net) = 1 /\ net[1].verb = "post"
         /\ net[1].path[1] = IF last.op = "invite" THEN "live_invite"
                             ELSE "live_update_perms"
         /\ net[1].data.name = last.arg.redditor
         /\ LET p == last.arg.permissions
                sent == net[1].data.permissions
            IN /\ ~p.given => sent = "+all"
               /\ p.given /\ p.names = <<>> => sent = ""
               /\ p.given /\ p.names # <<>> => sent \in Encodings(SetOf(p.names))

\* invite('spez', ['manage', 'manage']) posted "+manage".
C11_Witness ==
    /\ last.op = "invite" /\ last.result = "ok"
    /\ last.arg.permissions = PermList(<<"manage", "manage">>)
    /\ Len(net) = 1 /\ net[1].data.permissions = "+manage"

---------------------------------------------------------------------------
(* Claims about hash and id *)

\* C12 (as claimed): whenever a thread equals a value, another thread or a
\* str, the two have the same hash.
C12_HashAgreesWithEquals ==
    cmp.done /\ cmp.eq => cmp.hashl = cmp.hashr

\* C13 (as claimed): no call on a thread after its construction removes or
\* changes its id.
C13_IdNeverChanges ==
    last.op # "construct" /\ "id" \in DOMAIN before
      => "id" \in DOMAIN thread /\ thread["id"] = before["id"]

---------------------------------------------------------------------------
(* Claims about failures *)

\* A read whose fetch the transport failed.
FailedRead == last.op = "read" /\ last.result = "TransportError"

\* C14: a read on a stub whose fetch fails raises at that read, having made
\* the one get of the thread's info path, and leaves the thread's attributes
\* as they were, unfetched; and the next read of an attribute the thread
\* does not hold makes that get again.
C14_FailedFetchLeavesStub ==
    /\ [](FailedRead
            => /\ thread = before
               /\ ~thread["_fetched"]
               /\ last.arg.name \notin DOMAIN thread
               /\ net = <<Get(<<"liveabout", before["id"]>>, EmptyDict)>>)
    /\ [][FailedRead /\ last'.op = "read" /\ last'.arg.name \notin DOMAIN thread
            => /\ Len(net') = 1
               /\ net'[1].verb = "get"
               /\ net'[1].path = <<"liveabout", thread["id"]>>]_vars

\* A stub of id "b" whose helper was created, then a read that failed.
C14_Witness ==
    /\ FailedRead /\ last.arg.name = "title"
    /\ IsStub(DictUpdate(thread, ("_contrib" :> 0))) /\ thread["id"] = "b"
    /\ thread["_contrib"] = 1

---------------------------------------------------------------------------
(* Claims about pagination *)

\* The number of items on the first n pages.
RECURSIVE PrefixLen(_, _)
PrefixLen(ps, n) ==
    IF n <= 0 \/ ps = <<>> THEN 0 ELSE Len(Head(ps)) + PrefixLen(Tail(ps), n - 1)

\* C15: a listing that has not been pulled has made no request; a pull makes
\* at most one request; and when n requests have been made, every item of
\* the first n - 1 pages has been handed out and no item beyond page n.
C15_PagesInSequence ==
    /\ gen.state = "new" => gen.requests = 0 /\ net = <<>>
    /\ last.op = "pull" => Len(net) <= 1
    /\ gen.state \in {"running", "done"}
         => /\ gen.requests >= 1
            /\ Len(out) >= PrefixLen(pages, gen.requests - 1)
            /\ Len(out) <= PrefixLen(pages, gen.requests)

\* Two pages of two items: the pull of the third item made the second
\* request.
C15_Witness ==
    /\ last.op = "pull" /\ Len(net) = 1
    /\ Len(pages) = 2 /\ Len(pages[1]) = 2
    /\ gen.requests = 2 /\ Len(out) = 3

---------------------------------------------------------------------------
(* Claims about reads after update() *)

\* C16: after an update() that posted a title (and no id keyword) on a
\* thread that held a title, the next read of title makes exactly one get of
\* the thread's info path and returns the title the server holds then.
C16_ReadAfterUpdateRefetches ==
    [][/\ Posted
       /\ last.arg["title"] # None
       /\ "id" \notin DOMAIN last.arg
       /\ "title" \in DOMAIN before
       /\ last'.op = "read"
       /\ last'.arg.name = "title"
       => /\ Len(net') = 1
          /\ net'[1].verb = "get"
          /\ net'[1].path = <<"liveabout", thread["id"]>>
          /\ last'.result = "ok"
          /\ last'.value = server["title"]]_vars

\* A loaded thread (it still holds foo) whose title was "v1" was updated to
\* "v2"; the read that followed fetched "v2".
C16_Witness ==
    /\ last.op = "read" /\ last.arg.name = "title" /\ last.result = "ok"
    /\ calls = 1 /\ changes = 0
    /\ "foo" \in DOMAIN before /\ "title" \notin DOMAIN before
    /\ Len(net) = 1 /\ last.value = "v2" /\ server["title"] = "v2"

\* A get the transport did not answer.
FailedGet(call) == call.verb = "get" /\ call.data = EmptyDict

\* C17: an update() whose fresh read failed raised and sent no post; an
\* update() that raised left the thread's attributes and _fetched as found;
\* a thread that update() changed was changed after its post, by a call
\* that returned; and an update() whose post is not yet answered has left
\* the thread as found.
C17_FailedUpdateChangesNothing ==
    /\ last.op = "update_sent"
         => /\ DictDel(thread, {"_contrib"}) = DictDel(before, {"_contrib"})
            /\ \A j \in 1..Len(net) : net[j].verb # "post"
    /\ last.op = "update"
      => /\ (\E i \in 1..Len(net) : FailedGet(net[i]))
              => /\ last.result # "ok"
                 /\ \A j \in 1..Len(net) : net[j].verb # "post"
         /\ last.result # "ok"
              => DictDel(thread, {"_contrib"}) = DictDel(before, {"_contrib"})
         /\ DictDel(thread, {"_contrib"}) # DictDel(before, {"_contrib"})
              => /\ last.result = "ok"
                 /\ Len(net) >= 1 /\ net[Len(net)].verb = "post"

\* update() on a loaded thread whose fresh read was answered and whose post
\* failed: the thread still holds its title and is still fetched.
C17_Witness ==
    /\ last.op = "update" /\ last.result = "TransportError"
    /\ Len(net) = 2 /\ net[1].verb = "get" /\ ~FailedGet(net[1])
    /\ net[2].verb = "post"
    /\ "title" \in DOMAIN thread /\ thread["_fetched"]

---------------------------------------------------------------------------
(* Claims about an update's contribution helper *)

\* C18 (as claimed): on every update, from item access or from a listing,
\* contrib succeeds and is the first instance created for it; remove() and
\* strike() make exactly one post, to the path of the owning thread's id,
\* with the update's fullname as id.
C18_ContribOnEveryUpdate ==
    /\ last.op \in {"update_contrib", "remove", "strike"}
         => last.result = "ok" /\ last.handle = 1
    /\ last.op \in {"remove", "strike"}
         => /\ Len(net) = 1 /\ net[1].verb = "post"
            /\ net[1].path = <<IF last.op = "remove" THEN "live_remove_update"
                               ELSE "live_strike", thread["id"]>>
            /\ net[1].data = [id |-> "LiveUpdate_" \o upd["id"]]

\* The same, for updates built by item access only.
C18_ItemAccessPart ==
    "_contrib" \in DOMAIN upd => C18_ContribOnEveryUpdate

---------------------------------------------------------------------------
(* Claims about the bot *)

\* The strikes a table holds for an author, by name.
Strikes(table, name) ==
    LET ks == {k \in DOMAIN table : k.name = name}
    IN IF ks = {} THEN 0
       ELSE CHOOSE n \in {table[k].strikes : k \in ks} :
              \A k \in ks : table[k].strikes <= n

\* The texts a table holds for an author, by name.
Recorded(table, name) ==
    UNION {{table[k].texts[i] : i \in 1..Len(table[k].texts)} :
             k \in {j \in DOMAIN table : j.name = name}}

\* The text holds a checked phrase.
Matches(text) == \E i \in 1..Len(CHECK) : IsSubstr(CHECK[i], text)

\* C19 (as claimed): every strike count is within 0..MaxStrikes and no text
\* is recorded twice for an author; a comment adds a strike only if it
\* holds a checked phrase and was not recorded for its author; and a comment
\* by an author who is at MaxStrikes adds no strike and is answered with
\* the "reported" reply.
C19_StrikesWithinLimit ==
    /\ \A k \in DOMAIN botData :
         /\ botData[k].strikes \in 0..MaxStrikes
         /\ \A i, j \in 1..Len(botData[k].texts) :
              botData[k].texts[i] = botData[k].texts[j] => i = j
    /\ bot.author # None
         => /\ Strikes(botData, bot.author) > Strikes(bot.before, bot.author)
                 => /\ Matches(bot.body)
                    /\ bot.body \notin Recorded(bot.before, bot.author)
            /\ Strikes(bot.before, bot.author) = MaxStrikes
                 => /\ Strikes(botData, bot.author) = MaxStrikes
                    /\ \E i \in 1..Len(bot.sent) :
                         bot.sent[i] = [to |-> bot.author, kind |-> "reported",
                                        left |-> 0]

===========================================================================
